---------------------------- MODULE Spec2Model ----------------------------
(***************************************************************************)
(* Registration and check-in store of the Rooted World Tour system.        *)
(*                                                                         *)
(* The registrations table of src/database.py is modelled as the sequence  *)
(* of its rows in rowid order.  Text values that the code compares         *)
(* character by character (ticket ids, the identifiers handed to           *)
(* quick_checkin) are sequences of one-character strings; the other text   *)
(* columns are plain strings.                                              *)
(***************************************************************************)
EXTENDS Integers, Sequences, FiniteSets, TLC

VARIABLES table,    \* committed rows of the registrations table, in rowid order
          last,     \* the last completed operation: its name, arguments, result
          conns,    \* per station: the quick_checkin call running on its connection
          base_url, \* EventQRGenerator.base_url: the APP_URL of the deployment
          query_params  \* st.query_params of the page

vars == <<table, last, conns, base_url, query_params>>

---------------------------------------------------------------------------
(* Values *)

\* SQL NULL in a text column.
NULL == "NULL"

\* Python None in a returned tuple.
None == <<"None">>

\* ASCII upper-casing, as SQLite's LIKE folds case and str.upper() does.
LowerCase == <<"a","b","c","d","e","f","g","h","i","j","k","l","m",
               "n","o","p","q","r","s","t","u","v","w","x","y","z">>
UpperCase == <<"A","B","C","D","E","F","G","H","I","J","K","L","M",
               "N","O","P","Q","R","S","T","U","V","W","X","Y","Z">>

Upper(c) ==
    IF \E i \in 1..Len(LowerCase) : LowerCase[i] = c
    THEN UpperCase[CHOOSE i \in 1..Len(LowerCase) : LowerCase[i] = c]
    ELSE c

ToLower(c) ==
    IF \E i \in 1..Len(UpperCase) : UpperCase[i] = c
    THEN LowerCase[CHOOSE i \in 1..Len(UpperCase) : UpperCase[i] = c]
    ELSE c

LowerStr(s) == [i \in 1..Len(s) |-> ToLower(s[i])]

\* str.upper()
UpperStr(s) == [i \in 1..Len(s) |-> Upper(s[i])]

Digits == {"0","1","2","3","4","5","6","7","8","9"}

UpperLetters == {UpperCase[i] : i \in 1..Len(UpperCase)}
Letters == UpperLetters \cup {LowerCase[i] : i \in 1..Len(LowerCase)}

\* Two draws of str(uuid.uuid4()).
Uuids == { <<"a","b","1","2","c","d","3","4","-","5","e","6","f","-","4","a","7","b","-","8","c","9","d","-","0","e","1","f","2","a","3","b","4","c","5","d">>,
           <<"0","0","f","f","0","0","f","f","-","1","a","2","b","-","4","c","3","d","-","9","e","8","f","-","7","a","6","b","5","c","4","d","3","e","2","f">> }

\* Mutant of UniqueId: one character more of the uuid is kept.
UniqueIdNine(u) == UpperStr(SubSeq(u, 1, 9))

\* str(uuid.uuid4())[:8].upper()
UniqueId(u) == UpperStr(SubSeq(u, 1, 8))

\* The suffixes the two draws give: "AB12CD34" and "00FF00FF".
Suffixes == { UniqueId(u) : u \in Uuids }

RWT == <<"R","W","T">>
WT == <<"W","T">>

\* generate_ticket_id: f"{prefix}-{unique_id}"
GenerateTicketId(prefix, unique_id) == prefix \o <<"-">> \o unique_id

\* "WT-AB12CD34": a ticket of the worship team, contained in "RWT-AB12CD34".
WorshipTicket == GenerateTicketId(WT, <<"A","B","1","2","C","D","3","4">>)

\* Ticket ids the model stores: the ones add_registration generates, and
\* one that callers supply.  Every stored row has a ticket id.
TicketIds == { GenerateTicketId(RWT, s) : s \in Suffixes } \cup {WorshipTicket}

\* Identifiers handed to quick_checkin: stored ids, a lower-case spelling, a
\* fragment, the empty string, an id that is never stored, a stored id with
\* its last character mistyped, LIKE wildcards.
Identifiers ==
    TicketIds
    \cup { LowerStr(GenerateTicketId(RWT, <<"A","B","1","2","C","D","3","4">>)),
           <<"A","B","1","2">>,
           <<>>,
           <<"V","I","P","-","9","9","Z","Z","1","1">>,
           <<"W","T","-","A","B","1","2","C","D","3","5">>,
           <<"R","W","T","-","_","_","F","F","%">> }

---------------------------------------------------------------------------
(* SQL predicates *)

\* SQLite's LIKE: % matches any run of characters, _ any one character,
\* every other character itself, ignoring ASCII case.
RECURSIVE LikeMatch(_, _)
LikeMatch(p, s) ==
    IF p = <<>> THEN s = <<>>
    ELSE IF Head(p) = "%"
         THEN LikeMatch(Tail(p), s) \/ (s # <<>> /\ LikeMatch(p, Tail(s)))
         ELSE /\ s # <<>>
              /\ (Head(p) = "_" \/ Upper(Head(p)) = Upper(Head(s)))
              /\ LikeMatch(Tail(p), Tail(s))

\* f"%{ticket_id}%"
LikePattern(x) == <<"%">> \o x \o <<"%">>

\* The stored ids each identifier's pattern matches, computed once.
LikeTable == [x \in Identifiers |-> {s \in TicketIds : LikeMatch(LikePattern(x), s)}]

\* WHERE ticket_id LIKE ?
Like(tid, x) ==
    IF x \in DOMAIN LikeTable /\ tid \in TicketIds THEN tid \in LikeTable[x]
    ELSE LikeMatch(LikePattern(x), tid)

\* WHERE ticket_id = ? : binary comparison.
Equals(tid, x) == tid = x

\* x is a literal substring of s.
Contains(s, x) ==
    \E i \in 0..(Len(s) - Len(x)) : SubSeq(s, i + 1, i + Len(x)) = x

\* x is a substring of s when ASCII case is ignored.
ContainsNoCase(s, x) ==
    \E i \in 0..(Len(s) - Len(x)) :
        \A k \in 1..Len(x) : Upper(s[i + k]) = Upper(x[k])

---------------------------------------------------------------------------
(* Rows and inputs *)

\* datetime.now() / CURRENT_TIMESTAMP: two instants that differ.
Times == {"t1", "t2"}

Names == { <<"Ann", "Lee">>, <<"Bob", "Ray">> }

Ann == <<"Ann", "Lee">>
Email == "a@x.test"

\* The dicts handed to add_registration: complete ones, and ones whose
\* first_name, last_name or email is None (bound as NULL).
RegistrationData ==
    [ticket_id : TicketIds \cup {None}, name : Names, email : {Email}]
    \cup { [ticket_id |-> <<>>, name |-> Ann, email |-> Email],
           [ticket_id |-> WorshipTicket, name |-> <<NULL, "Lee">>, email |-> Email],
           [ticket_id |-> None, name |-> <<"Ann", NULL>>, email |-> Email],
           [ticket_id |-> None, name |-> Ann, email |-> NULL] }

\* HybridDatabase.add_registration reads data['ticket_id'] as given.
HybridData == {d \in RegistrationData : d.ticket_id \in TicketIds}

\* uuid.uuid4() is drawn only when add_registration generates the ticket id.
Draws(data) ==
    IF data.ticket_id = None \/ data.ticket_id = <<>> THEN Suffixes
    ELSE {<<>>}

\* An execute() that raises sqlite3.OperationalError ("database is locked").
Faults(data) == IF data.name = Ann THEN BOOLEAN ELSE {FALSE}

\* Mutant of NewRow: the row is inserted as checked_in.
NewRowCheckedIn(ticket_id, name, email) ==
    [ticket_id |-> ticket_id, first_name |-> name[1], last_name |-> name[2],
     email |-> email, status |-> "checked_in", checkin_time |-> NULL]

\* A row as the INSERT of add_registration stores it: status takes the
\* column default 'registered', checkin_time is left NULL.
NewRow(ticket_id, name, email) ==
    [ticket_id |-> ticket_id, first_name |-> name[1], last_name |-> name[2],
     email |-> email, status |-> "registered", checkin_time |-> NULL]

\* Mutant of UniqueViolated: the column declared without UNIQUE.
UniqueNotEnforced(t, ticket_id) == FALSE

\* UNIQUE(ticket_id): a second row with the same ticket_id.
UniqueViolated(t, ticket_id) ==
    \E i \in DOMAIN t : t[i].ticket_id = ticket_id

\* NOT NULL on first_name, last_name, email.
NotNullViolated(name, email) ==
    name[1] = NULL \/ name[2] = NULL \/ email = NULL

\* sqlite3.IntegrityError is raised for either constraint.
IntegrityError(t, ticket_id, name, email) ==
    UniqueViolated(t, ticket_id) \/ NotNullViolated(name, email)

---------------------------------------------------------------------------
(* Check-in payload *)

\* The APP_URL the deployment is configured with.
BaseUrl == <<"h","t","t","p","s",":","/","/","x",".","t","e","s","t">>

\* Mutant of Payload: the two query parameters in the other order.
PayloadReordered(base, ticket_id) ==
    base \o <<"/","?","a","c","t","i","o","n","=","c","h","e","c","k","i","n","&","t","i","c","k","e","t","=">> \o ticket_id

\* f"{self.base_url}/?ticket={ticket_id}&action=checkin"
Payload(base, ticket_id) ==
    base \o <<"/","?","t","i","c","k","e","t","=">> \o ticket_id \o <<"&","a","c","t","i","o","n","=","c","h","e","c","k","i","n">>

\* checkin_url of create_checkin_qr
CheckinUrl(ticket_id) == Payload(base_url, ticket_id)

\* create_checkin_qr: the image that encodes the check-in URL.
CreateCheckinQr(ticket_id) == <<"qr", CheckinUrl(ticket_id)>>

\* generate_bulk_qr_codes: 'qr_data' of a ticket.
QrData(base, ticket_id) ==
    base \o <<"/","?","t","i","c","k","e","t","=">> \o ticket_id \o <<"&","a","c","t","i","o","n","=","c","h","e","c","k","i","n">>

\* The prefixes tickets are generated with.
Prefixes == { <<"R","W","T">>, <<"V","I","P">>, <<"W","T">>, <<"V","O","L">>, <<"S","T","A","F","F">> }

\* Every id generate_ticket_id returns for these prefixes and draws.
GeneratedIds == { GenerateTicketId(p, UniqueId(u)) : p \in Prefixes, u \in Uuids }

\* Ticket ids that callers supply with reserved URL characters in them.
ReservedIds == { <<"R","W","T","-","A","&","B">>, <<"R","W","T","-","A","#","B">>, <<"R","W","T","-","A","+","B">>, <<"R","W","T","-","A","%","2","6">>,
                 <<"R","W","T","-","A","=","B">>, <<"R","W","T","-","A"," ","B">> }

\* Deployments: no path, a port and a path, no scheme.
BaseUrls == { BaseUrl, <<"h","t","t","p",":","/","/","x",".","t","e","s","t",":","8","5","0","1","/","a","p","p">>, <<"x",".","t","e","s","t">> }

---------------------------------------------------------------------------
(* _extract_ticket_id *)

\* str.find: the index of the first c in s, 0 when there is none.
FirstIndex(s, c) ==
    IF \E i \in 1..Len(s) : s[i] = c
    THEN CHOOSE i \in 1..Len(s) : s[i] = c /\ \A j \in 1..(i - 1) : s[j] # c
    ELSE 0

\* s.split(c, 1)[0] and the rest after the first c.
Before(s, c) ==
    IF FirstIndex(s, c) = 0 THEN s ELSE SubSeq(s, 1, FirstIndex(s, c) - 1)

After(s, c) ==
    IF FirstIndex(s, c) = 0 THEN <<>> ELSE SubSeq(s, FirstIndex(s, c) + 1, Len(s))

\* str.split(c)
RECURSIVE Split(_, _)
Split(s, c) ==
    IF FirstIndex(s, c) = 0 THEN <<s>>
    ELSE <<Before(s, c)>> \o Split(After(s, c), c)

\* str.startswith
StartsWith(s, p) == Len(s) >= Len(p) /\ SubSeq(s, 1, Len(p)) = p

SchemeChars == Letters \cup Digits \cup {"+", "-", "."}

\* urlsplit: the text after "scheme:", when the text starts with a scheme.
AfterScheme(url) ==
    LET i == FirstIndex(url, ":") IN
    IF i > 1 /\ url[1] \in Letters /\ \A k \in 1..(i - 1) : url[k] \in SchemeChars
    THEN SubSeq(url, i + 1, Len(url))
    ELSE url

\* urlsplit: the network location, from "//" to the first of / ? #.
Netloc(url) ==
    LET rest == AfterScheme(url)
        body == SubSeq(rest, 3, Len(rest))
        stop == {i \in 1..Len(body) : body[i] \in {"/", "?", "#"}}
    IN
    IF ~StartsWith(rest, <<"/","/">>) THEN <<>>
    ELSE IF stop = {} THEN body
         ELSE SubSeq(body, 1, (CHOOSE i \in stop : \A j \in stop : i <= j) - 1)

\* urlparse raises ValueError("Invalid IPv6 URL") on an unbalanced bracket.
UrlparseRaises(url) ==
    LET n == Netloc(url) IN
    (FirstIndex(n, "[") # 0) # (FirstIndex(n, "]") # 0)

\* urlparse(...).query: the fragment is cut at the first #, then the query
\* starts after the first ?.
UrlQuery(url) == After(Before(url, "#"), "?")

\* nv.replace('+', ' ')
PlusToSpace(s) == [i \in 1..Len(s) |-> IF s[i] = "+" THEN " " ELSE s[i]]

\* The printable ASCII characters, from code 32 (space) to code 126; the
\* grave accent (code 96) is written by its name.
Ascii ==
    <<
    " ","!","\"","#","$","%","&","'","(",")","*","+",",","-",".","/",
    "0","1","2","3","4","5","6","7","8","9",":",";","<","=",">","?",
    "@","A","B","C","D","E","F","G","H","I","J","K","L","M","N","O",
    "P","Q","R","S","T","U","V","W","X","Y","Z","[","\\","]","^","_",
    "grave","a","b","c","d","e","f","g","h","i","j","k","l","m","n","o",
    "p","q","r","s","t","u","v","w","x","y","z","{","|","}","~"
    >>

HexDigits == <<"0","1","2","3","4","5","6","7","8","9","A","B","C","D","E","F">>

IsHex(c) == \E i \in 1..Len(HexDigits) : HexDigits[i] = Upper(c)

HexValue(c) == (CHOOSE i \in 1..Len(HexDigits) : HexDigits[i] = Upper(c)) - 1

\* The byte a %XX escape stands for.
EscapeCode(s) == 16 * HexValue(s[2]) + HexValue(s[3])

\* urllib.parse.unquote: %XX becomes the character with that code; a % that
\* is not followed by two hex digits stays.
RECURSIVE Unquote(_)
Unquote(s) ==
    IF s = <<>> THEN <<>>
    ELSE IF /\ s[1] = "%" /\ Len(s) >= 3 /\ IsHex(s[2]) /\ IsHex(s[3])
            /\ EscapeCode(s) \in 32..126
         THEN <<Ascii[EscapeCode(s) - 31]>> \o Unquote(SubSeq(s, 4, Len(s)))
         ELSE <<s[1]>> \o Unquote(Tail(s))

\* Mutant of QueryPairs: the query is not split at &.
QueryWhole(qs) == <<qs>>

\* parse_qs: qs.split('&')
QueryPairs(qs) == Split(qs, "&")

\* parse_qs(...).get(key, [None])[0]: the first value of key.  A pair
\* without = or with a blank value is skipped; names and values are unquoted.
RECURSIVE ParseQsGet(_, _)
ParseQsGet(pairs, key) ==
    IF pairs = <<>> THEN None
    ELSE LET nv == Head(pairs) IN
         IF /\ FirstIndex(nv, "=") # 0
            /\ After(nv, "=") # <<>>
            /\ Unquote(PlusToSpace(Before(nv, "="))) = key
         THEN Unquote(PlusToSpace(After(nv, "=")))
         ELSE ParseQsGet(Tail(pairs), key)

\* params.get('ticket', [None])[0]
TicketParam(qr_data) == ParseQsGet(QueryPairs(UrlQuery(qr_data)), <<"t","i","c","k","e","t">>)

\* ('RWT-', 'VIP-', 'WT-', 'VOL-', 'STAFF-')
KnownPrefixes == { <<"R","W","T","-">>, <<"V","I","P","-">>, <<"W","T","-">>, <<"V","O","L","-">>, <<"S","T","A","F","F","-">> }

\* qr_data.startswith(('RWT-', 'VIP-', 'WT-', 'VOL-', 'STAFF-'))
StartsWithKnownPrefix(qr_data) == \E p \in KnownPrefixes : StartsWith(qr_data, p)

\* The characters of [A-Z0-9] from position j on.
AlnumRun(s, j) ==
    CHOOSE n \in 0..(Len(s) + 1 - j) :
        /\ \A m \in 0..(n - 1) : s[j + m] \in UpperLetters \cup Digits
        /\ (j + n > Len(s) \/ s[j + n] \notin UpperLetters \cup Digits)

\* [A-Z]{2,4}-[A-Z0-9]{6,12} matched at position i: the last position of the
\* greedy match, 0 when there is no match at i.
ReMatchEnd(s, i) ==
    LET ks == {k \in 2..4 : /\ i + k <= Len(s)
                            /\ s[i + k] = "-"
                            /\ \A m \in 0..(k - 1) : s[i + m] \in UpperLetters
                            /\ AlnumRun(s, i + k + 1) >= 6}
    IN
    IF ks = {} THEN 0
    ELSE LET k == CHOOSE k \in ks : TRUE
             n == AlnumRun(s, i + k + 1)
         IN i + k + (IF n > 12 THEN 12 ELSE n)

\* re.search(r'([A-Z]{2,4}-[A-Z0-9]{6,12})', qr_data): the leftmost match.
ReSearch(s) ==
    LET starts == {i \in 1..Len(s) : ReMatchEnd(s, i) # 0} IN
    IF starts = {} THEN None
    ELSE LET i == CHOOSE i \in starts : \A j \in starts : i <= j
         IN SubSeq(s, i, ReMatchEnd(s, i))

\* Mutant of ExtractTicketId: the URL strategy is skipped.
ExtractBySearch(qr_data) ==
    IF qr_data = <<>> THEN None
    ELSE IF StartsWithKnownPrefix(qr_data) THEN qr_data
         ELSE ReSearch(qr_data)

\* _extract_ticket_id
ExtractTicketId(qr_data) ==
    IF qr_data = <<>> THEN None
    ELSE IF Contains(qr_data, <<"?","t","i","c","k","e","t","=">>) /\ ~UrlparseRaises(qr_data)
         THEN TicketParam(qr_data)
         ELSE IF StartsWithKnownPrefix(qr_data) THEN qr_data
              ELSE ReSearch(qr_data)

\* A check-in URL with the ticket parameter after the action parameter.
ActionFirstUrl(base, ticket_id) ==
    base \o <<"/","?","a","c","t","i","o","n","=","c","h","e","c","k","i","n","&","t","i","c","k","e","t","=">> \o ticket_id

\* What a scanner decodes or an usher types: issued payloads, URLs with the
\* parameters in the other order, bare ids, and other text.
QrTexts ==
    { Payload(b, t) : b \in BaseUrls, t \in GeneratedIds \cup ReservedIds }
    \cup { ActionFirstUrl(BaseUrl, t) :
              t \in GeneratedIds \cup { <<"r","w","t","-","a","b","1","2","c","d","3","4">> } }
    \cup GeneratedIds
    \cup { <<>>,
           <<"g","a","r","b","a","g","e">>,
           <<"R","W","T","-">>,
           <<"R","W","T","-","a","b","c"," ","d","e","f"," ","V","I","P","-","9","9","Z","Z","1","1","X","X">>,
           <<"n","o","i","s","e"," ","t","e","x","t"," ","w","i","t","h"," ","V","I","P","-","9","9","Z","Z","1","1"," ","e","m","b","e","d","d","e","d">>,
           <<"x"," ","S","T","A","F","F","-","A","B","1","2","C","D","3","4">>,
           <<"A","B","-","1","2","3","4","5","6","7","8","9","0","1","2","3","4","5","6">>,
           <<"h","t","t","p","s",":","/","/","x",".","t","e","s","t","/","?","t","i","c","k","e","t","=","&","a","c","t","i","o","n","=","c","h","e","c","k","i","n">>,
           <<"h","t","t","p","s",":","/","/","x",".","t","e","s","t","/","?","t","i","c","k","e","t","=","&","i","d","=","R","W","T","-","A","B","1","2","C","D","3","4">>,
           <<"R","W","T","-","A","B","1","2","C","D","3","4","?","t","i","c","k","e","t","=">>,
           <<"h","t","t","p","s",":","/","/","[","b","a","d","/","?","t","i","c","k","e","t","=","S","T","A","F","F","-","A","B","1","2","C","D","3","4","&","a","c","t","i","o","n","=","c","h","e","c","k","i","n">>,
           <<"h","t","t","p","s",":","/","/","x",".","t","e","s","t","/","?","t","i","c","k","e","t","=","R","W","T","-","A","%","2","6","B","&","a","c","t","i","o","n","=","c","h","e","c","k","i","n">> }

\* The QR codes scanned at the door: the ones issued for the stored ticket
\* ids, and one that is not a ticket.
ScanTexts == { Payload(BaseUrl, t) : t \in TicketIds } \cup { <<"g","a","r","b","a","g","e">> }

\* _extract_ticket_id on each text, computed once.
ExtractTable == [t \in QrTexts \cup ScanTexts |-> ExtractTicketId(t)]

---------------------------------------------------------------------------
(* add_registration *)

DuplicateMessage == "Ticket ID already exists!"
SuccessMessage == "Registration successful!"
ErrorMessage == "Error: database is locked"

\* The ticket id add_registration inserts: the supplied one, or a generated
\* one when the key is missing, None or empty.
EffectiveTicket(data, unique_id) ==
    IF data.ticket_id = None \/ data.ticket_id = <<>>
    THEN GenerateTicketId(RWT, unique_id)
    ELSE data.ticket_id

\* EventDatabase.add_registration: the returned tuple.
AddResult(t, data, tid, fault) ==
    IF fault THEN <<FALSE, ErrorMessage, None, None>>
    ELSE IF IntegrityError(t, tid, data.name, data.email)
         THEN <<FALSE, DuplicateMessage, None, None>>
         ELSE <<TRUE, SuccessMessage, tid, CreateCheckinQr(tid)>>

\* t without the rows whose ticket_id is tid (the delete of OR REPLACE).
RECURSIVE WithoutTicket(_, _)
WithoutTicket(t, tid) ==
    IF t = <<>> THEN <<>>
    ELSE IF Head(t).ticket_id = tid
         THEN WithoutTicket(Tail(t), tid)
         ELSE <<Head(t)>> \o WithoutTicket(Tail(t), tid)

\* Mutant of AddTable: INSERT OR REPLACE, as import_from_csv writes.
AddTableReplace(t, data, tid, fault) ==
    IF fault \/ NotNullViolated(data.name, data.email) THEN t
    ELSE Append(WithoutTicket(t, tid), NewRow(tid, data.name, data.email))

\* EventDatabase.add_registration: the table after the call.
AddTable(t, data, tid, fault) ==
    IF fault \/ IntegrityError(t, tid, data.name, data.email)
    THEN t
    ELSE Append(t, NewRow(tid, data.name, data.email))

AddRegistration(data, unique_id, fault) ==
    LET tid == EffectiveTicket(data, unique_id) IN
    /\ table' = AddTable(table, data, tid, fault)
    /\ last' = [op |-> "add_registration", arg |-> data.ticket_id, tid |-> tid,
                fault |-> fault, fallback |-> FALSE,
                res |-> AddResult(table, data, tid, fault)]
    /\ UNCHANGED <<conns, base_url, query_params>>

\* HybridDatabase.add_registration: the same INSERT on the same table; the
\* result is a pair.
HybridAddRegistration(data, fault) ==
    /\ table' = AddTable(table, data, data.ticket_id, fault)
    /\ last' = [op |-> "hybrid_add_registration", arg |-> data.ticket_id,
                tid |-> data.ticket_id, fault |-> fault, fallback |-> FALSE,
                res |-> SubSeq(AddResult(table, data, data.ticket_id, fault), 1, 2)]
    /\ UNCHANGED <<conns, base_url, query_params>>

---------------------------------------------------------------------------
(* quick_checkin: its SQL statements *)

\* Mutant of ExactRows: the UPDATE without AND status = 'registered'.
ExactRowsAnyStatus(t, x) == {i \in DOMAIN t : Equals(t[i].ticket_id, x)}

\* Rows an UPDATE ... WHERE ticket_id = ? AND status = 'registered' changes.
ExactRows(t, x) ==
    {i \in DOMAIN t : Equals(t[i].ticket_id, x) /\ t[i].status = "registered"}

\* Mutant of LikeRows: the UPDATE without ticket_id LIKE ?.
LikeRowsUnfiltered(t, x) == {i \in DOMAIN t : t[i].status = "registered"}

\* Rows an UPDATE ... WHERE ticket_id LIKE ? AND status = 'registered' changes.
LikeRows(t, x) ==
    {i \in DOMAIN t : Like(t[i].ticket_id, x) /\ t[i].status = "registered"}

\* Mutant of SetCheckedIn: SET status = 'checked_in' only.
SetStatusOnly(t, S, now) ==
    [i \in DOMAIN t |->
        IF i \in S THEN [t[i] EXCEPT !.status = "checked_in"] ELSE t[i]]

\* SET checkin_time = ?, status = 'checked_in' on the rows in S.
SetCheckedIn(t, S, now) ==
    [i \in DOMAIN t |->
        IF i \in S THEN [t[i] EXCEPT !.checkin_time = now, !.status = "checked_in"]
        ELSE t[i]]

\* SELECT ... WHERE ticket_id LIKE ? : the rows, scanned in rowid order.
SelectLike(t, x) == {i \in DOMAIN t : Like(t[i].ticket_id, x)}

\* cursor.fetchone() on a scan that found the rows S: the first in rowid order.
FetchOne(t, S) == t[CHOOSE i \in S : \A j \in S : i <= j]

\* The tuple quick_checkin returns after its commit, from the committed
\* table t and the rowcount of the last UPDATE it executed.
CheckinResult(t, x, rowcount) ==
    LET found == SelectLike(t, x)
        row == FetchOne(t, found)
    IN
    IF rowcount > 0
    THEN <<TRUE, IF found = {} THEN None ELSE <<row.first_name, row.last_name>>>>
    ELSE IF found # {} /\ row.status = "checked_in"
         THEN <<FALSE, <<row.first_name, row.last_name>>>>
         ELSE <<FALSE, None>>

\* Mutant of CheckinTable: the partial-match UPDATE is never run.
CheckinTableExactOnly(t, x, now) == SetCheckedIn(t, ExactRows(t, x), now)

\* Mutant of CheckinTable: the partial-match UPDATE is always run.
CheckinTableBoth(t, x, now) ==
    SetCheckedIn(t, ExactRows(t, x) \cup LikeRows(t, x), now)

\* The table after the one or two UPDATEs of quick_checkin.
CheckinTable(t, x, now) ==
    IF ExactRows(t, x) # {} THEN SetCheckedIn(t, ExactRows(t, x), now)
    ELSE SetCheckedIn(t, LikeRows(t, x), now)

\* cursor.rowcount after the one or two UPDATEs.
CheckinRowcount(t, x) ==
    IF ExactRows(t, x) # {} THEN Cardinality(ExactRows(t, x))
    ELSE Cardinality(LikeRows(t, x))

\* SQLITE_MAX_LIKE_PATTERN_LENGTH: a longer LIKE pattern makes the statement
\* fail with "LIKE or GLOB pattern too complex".
LikePatternLimit == 50000

PatternTooComplex(x) == Len(LikePattern(x)) > LikePatternLimit

\* sqlite3.OperationalError leaving quick_checkin.
Raised == <<"OperationalError">>

\* quick_checkin has no handler: the call raises when its first UPDATE fails
\* (fault: the database is locked) or when the LIKE UPDATE is refused.
CheckinRaises(t, x, fault) ==
    fault \/ (ExactRows(t, x) = {} /\ PatternTooComplex(x))

\* EventDatabase.quick_checkin run alone, start to return or raise.  A call
\* that raises has not committed.
QuickCheckinCall(x, now, fault) ==
    /\ table' = IF CheckinRaises(table, x, fault) THEN table
                ELSE CheckinTable(table, x, now)
    /\ last' = [op |-> "quick_checkin", arg |-> x, tid |-> x, fault |-> fault,
                fallback |-> (~fault /\ ExactRows(table, x) = {}),
                res |-> IF CheckinRaises(table, x, fault) THEN Raised
                        ELSE CheckinResult(CheckinTable(table, x, now), x,
                                           CheckinRowcount(table, x))]
    /\ UNCHANGED <<conns, base_url, query_params>>

\* quick_checkin while the store answers.
QuickCheckin(x, now) == QuickCheckinCall(x, now, FALSE)

\* The scanner pages of app.py: ticket_id = _extract_ticket_id(data), then
\* quick_checkin(ticket_id) if one was extracted.
ScanCheckin(qr_data, now) ==
    LET ticket_id == ExtractTable[qr_data] IN
    /\ table' = IF ticket_id = None \/ ticket_id = <<>> THEN table
                ELSE CheckinTable(table, ticket_id, now)
    /\ last' = [op |-> "scan_checkin", arg |-> qr_data, tid |-> ticket_id,
                fault |-> FALSE,
                fallback |-> (ticket_id # None /\ ExactRows(table, ticket_id) = {}),
                res |-> IF ticket_id = None \/ ticket_id = <<>> THEN <<>>
                        ELSE CheckinResult(CheckinTable(table, ticket_id, now),
                                           ticket_id,
                                           CheckinRowcount(table, ticket_id))]
    /\ UNCHANGED <<conns, base_url, query_params>>

---------------------------------------------------------------------------
(* Admin operations of app.py *)

\* Mutant of RegisteredRows: the UPDATE without its WHERE clause.
AllRows(t) == DOMAIN t

\* Bulk Check-in: UPDATE ... WHERE status = 'registered'; reports rowcount.
RegisteredRows(t) == {i \in DOMAIN t : t[i].status = "registered"}

BulkCheckin(now) ==
    /\ table' = SetCheckedIn(table, RegisteredRows(table), now)
    /\ last' = [op |-> "bulk_checkin", arg |-> <<>>, tid |-> <<>>,
                fault |-> FALSE, fallback |-> FALSE,
                res |-> <<Cardinality(RegisteredRows(table))>>]
    /\ UNCHANGED <<conns, base_url, query_params>>

\* Clear Data Only: DELETE FROM registrations; reports the count before.
ResetData ==
    /\ table' = <<>>
    /\ last' = [op |-> "reset", arg |-> <<>>, tid |-> <<>>, fault |-> FALSE,
                fallback |-> FALSE,
                res |-> <<Len(table)>>]
    /\ UNCHANGED <<conns, base_url, query_params>>

---------------------------------------------------------------------------
(* import_from_csv *)

\* A row of a CSV file: the status and checkin_time columns are written as
\* the file gives them.
CsvRow(first_name, status, checkin_time) ==
    [ticket_id |-> WorshipTicket, first_name |-> first_name, last_name |-> "Lee",
     email |-> Email, status |-> status, checkin_time |-> checkin_time]

\* Rows of a backup taken before and after the check-in, a row with a status
\* of another system, and a row with an empty first_name cell.
CsvRows == { CsvRow("Ann", "registered", NULL), CsvRow("Ann", "checked_in", "t1"),
             CsvRow("Ann", "cancelled", NULL), CsvRow(NULL, "registered", NULL) }

\* CSV rows per imported file.
MaxCsvRows == 1

CsvFiles == UNION { [1..n -> CsvRows] : n \in 0..MaxCsvRows }

\* INSERT OR REPLACE of one CSV row: a NOT NULL failure raises and the row is
\* skipped; a ticket_id conflict deletes the old row, the new row gets a new
\* rowid.
InsertOrReplace(t, r) ==
    IF NotNullViolated(<<r.first_name, r.last_name>>, r.email) THEN t
    ELSE Append(WithoutTicket(t, r.ticket_id), r)

RECURSIVE ImportRows(_, _)
ImportRows(t, csv) ==
    IF csv = <<>> THEN t
    ELSE ImportRows(InsertOrReplace(t, Head(csv)), Tail(csv))

ImportFromCsv(csv) ==
    /\ table' = ImportRows(table, csv)
    /\ last' = [op |-> "import_from_csv", arg |-> <<>>, tid |-> <<>>,
                fault |-> FALSE, fallback |-> FALSE, res |-> <<TRUE>>]
    /\ UNCHANGED <<conns, base_url, query_params>>

---------------------------------------------------------------------------
(* get_dashboard_stats *)

\* get_dashboard_stats() without event_date: COUNT(*), the number of rows
\* with status = 'checked_in', and their difference.
DashboardStats(t) ==
    LET total == Len(t)
        checked_in == Cardinality({i \in DOMAIN t : t[i].status = "checked_in"})
    IN [total |-> total, checked_in |-> checked_in, pending |-> total - checked_in]

GetDashboardStats ==
    /\ last' = [op |-> "get_dashboard_stats", arg |-> <<>>, tid |-> <<>>,
                fault |-> FALSE, fallback |-> FALSE,
                res |-> DashboardStats(table)]
    /\ UNCHANGED <<table, conns, base_url, query_params>>

---------------------------------------------------------------------------
(* Auto check-in from the URL of the page *)

\* No query parameter in the URL.
NoParams == [ticket |-> None, action |-> None]

\* Mutant of ClearParams: the parameters are left in the URL.
KeepParams(q) == q

\* st.query_params.clear()
ClearParams(q) == NoParams

\* ?ticket=... : absent, empty, a ticket id, a fragment.
UrlTickets == {None, <<>>, WorshipTicket, <<"A","B","1","2">>}

\* &action=... : absent, checkin, something else.
UrlActions == {None, <<"c","h","e","c","k","i","n">>, <<"v","i","e","w">>}

\* The browser opens the page at a URL.
OpenUrl(ticket, action) ==
    /\ query_params' = [ticket |-> ticket, action |-> action]
    /\ last' = [op |-> "open_url", arg |-> ticket, tid |-> <<>>,
                fault |-> FALSE, fallback |-> FALSE, res |-> <<>>]
    /\ UNCHANGED <<table, conns, base_url>>

\* if 'ticket' in query_params and 'action' in query_params, and
\* action == 'checkin'
AutoCheckinApplies(q) ==
    q.ticket # None /\ q.action # None /\ q.action = <<"c","h","e","c","k","i","n">>

\* One run of the page script: the auto check-in block.  res lists the
\* results of the quick_checkin calls the run made.
AutoCheckin(now) ==
    LET q == query_params IN
    /\ query_params' = IF AutoCheckinApplies(q) THEN ClearParams(q) ELSE q
    /\ table' = IF AutoCheckinApplies(q) THEN CheckinTable(table, q.ticket, now)
                ELSE table
    /\ last' = [op |-> "page_run", arg |-> q.ticket, tid |-> <<>>,
                fault |-> FALSE, fallback |-> FALSE,
                res |-> IF AutoCheckinApplies(q)
                        THEN << CheckinResult(CheckinTable(table, q.ticket, now),
                                              q.ticket,
                                              CheckinRowcount(table, q.ticket)) >>
                        ELSE <<>>]
    /\ UNCHANGED <<conns, base_url>>

---------------------------------------------------------------------------
(* Generate Tickets *)

\* Tickets per Generate Tickets click.
MaxTickets == 2

\* f'Ticket{i+1}' and f'ticket{i+1}@example.com'
TicketNames == <<"Ticket1", "Ticket2", "Ticket3">>
TicketEmails == <<"ticket1@example.com", "ticket2@example.com",
                  "ticket3@example.com">>

\* ticket_type
TicketType == "General Admission"

\* The draws of one click: num_tickets is at least 1.
TicketDraws == UNION { [1..n -> Uuids] : n \in 1..MaxTickets }

\* ticket_data of the i-th ticket.
TicketData(ticket_id, i) ==
    [ticket_id |-> ticket_id, name |-> <<TicketNames[i], TicketType>>,
     email |-> TicketEmails[i]]

\* The loop: add_registration for each generated id, its result ignored.
RECURSIVE GenerateLoop(_, _, _, _)
GenerateLoop(t, prefix, us, i) ==
    IF i > Len(us) THEN t
    ELSE LET ticket_id == GenerateTicketId(prefix, UniqueId(us[i])) IN
         GenerateLoop(AddTable(t, TicketData(ticket_id, i), ticket_id, FALSE),
                      prefix, us, i + 1)

\* The Generate Tickets button: generated_tickets lists every generated id,
\* and the message reports num_tickets.
GenerateTickets(prefix, us) ==
    /\ table' = GenerateLoop(table, prefix, us, 1)
    /\ last' = [op |-> "generate_tickets", arg |-> prefix, tid |-> <<>>,
                fault |-> FALSE, fallback |-> FALSE,
                res |-> [tickets |-> [k \in 1..Len(us) |->
                                        GenerateTicketId(prefix, UniqueId(us[k]))],
                         count |-> Len(us)]]
    /\ UNCHANGED <<conns, base_url, query_params>>

---------------------------------------------------------------------------
(* The store used by one operation at a time *)

Stations == {"s1", "s2"}

IdleConn == [pc |-> "idle", x |-> <<>>, rowcount |-> 0,
             work |-> <<>>, registered |-> FALSE, res |-> None]

NoCall == [op |-> "none", arg |-> <<>>, tid |-> <<>>, fault |-> FALSE,
           fallback |-> FALSE,
           res |-> <<>>]

Init ==
    /\ table = <<>>
    /\ last = NoCall
    /\ conns = [s \in Stations |-> IdleConn]
    /\ base_url = BaseUrl
    /\ query_params = NoParams

Next ==
    \/ \E data \in RegistrationData :
          \E u \in Draws(data), fault \in Faults(data) :
             AddRegistration(data, u, fault)
    \/ \E data \in HybridData :
          \E fault \in Faults(data) : HybridAddRegistration(data, fault)
    \/ \E x \in Identifiers, now \in Times : QuickCheckin(x, now)
    \/ \E qr_data \in ScanTexts, now \in Times : ScanCheckin(qr_data, now)
    \/ \E now \in Times : BulkCheckin(now)
    \/ \E csv \in CsvFiles : ImportFromCsv(csv)
    \/ ResetData
    \/ GetDashboardStats

\* Every operation that writes the registrations table.
Spec == Init /\ [][Next]_vars

\* Registration and check-in only: no import, no reset.
NextCore ==
    \/ \E data \in RegistrationData :
          \E u \in Draws(data), fault \in Faults(data) :
             AddRegistration(data, u, fault)
    \/ \E data \in HybridData :
          \E fault \in Faults(data) : HybridAddRegistration(data, fault)
    \/ \E x \in Identifiers, now \in Times : QuickCheckin(x, now)
    \/ \E now \in Times : BulkCheckin(now)
    \/ GetDashboardStats

SpecCore == Init /\ [][NextCore]_vars

---------------------------------------------------------------------------
(* quick_checkin on two connections, statement by statement *)

\* Registrations in the table when the stations start scanning.
MaxConcRows == 2

RECURSIVE AddAll(_, _)
AddAll(t, ds) ==
    IF ds = <<>> THEN t
    ELSE AddAll(AddTable(t, Head(ds), Head(ds).ticket_id, FALSE), Tail(ds))

ConcTables ==
    { AddAll(<<>>, ds) : ds \in UNION { [1..n -> HybridData] : n \in 0..MaxConcRows } }

\* What the stations scan or type.
ConcIdentifiers == {WorshipTicket, <<"A","B","1","2">>}

\* A connection holds the write lock from its first UPDATE to its commit.
HoldsLock(c) == c.pc \in {"fallback", "commit"}

\* conn = self.get_connection(); cursor = conn.cursor()
Begin(s, x) ==
    /\ conns[s].pc = "idle"
    /\ conns' = [conns EXCEPT ![s] =
                    [IdleConn EXCEPT !.pc = "exact", !.x = x,
                                     !.registered = (ExactRows(table, x) # {})]]
    /\ UNCHANGED <<table, last, base_url, query_params>>

\* The exact-match UPDATE, run when no other connection holds the write lock.
ExecExact(s, now) ==
    /\ conns[s].pc = "exact"
    /\ \A o \in Stations \ {s} : ~HoldsLock(conns[o])
    /\ LET rows == ExactRows(table, conns[s].x) IN
       conns' = [conns EXCEPT ![s].work = SetCheckedIn(table, rows, now),
                              ![s].rowcount = Cardinality(rows),
                              ![s].pc = IF Cardinality(rows) = 0 THEN "fallback"
                                        ELSE "commit"]
    /\ UNCHANGED <<table, last, base_url, query_params>>

\* The busy timeout of the exact-match UPDATE: the other connection kept the
\* write lock for longer than the connection waits.
BusyTimeout(s) ==
    /\ conns[s].pc = "exact"
    /\ \E o \in Stations \ {s} : HoldsLock(conns[o])
    /\ conns' = [conns EXCEPT ![s].pc = "done", ![s].res = Raised]
    /\ UNCHANGED <<table, last, base_url, query_params>>

\* if cursor.rowcount == 0: the LIKE UPDATE, inside the same transaction.
ExecFallback(s, now) ==
    /\ conns[s].pc = "fallback"
    /\ LET rows == LikeRows(conns[s].work, conns[s].x) IN
       conns' = [conns EXCEPT ![s].work = SetCheckedIn(conns[s].work, rows, now),
                              ![s].rowcount = Cardinality(rows),
                              ![s].pc = "commit"]
    /\ UNCHANGED <<table, last, base_url, query_params>>

\* conn.commit()
Commit(s) ==
    /\ conns[s].pc = "commit"
    /\ table' = conns[s].work
    /\ conns' = [conns EXCEPT ![s].pc = "select"]
    /\ UNCHANGED <<last, base_url, query_params>>

\* The name lookup on the committed table, and the return.
Lookup(s) ==
    /\ conns[s].pc = "select"
    /\ conns' = [conns EXCEPT
                    ![s].pc = "done",
                    ![s].res = CheckinResult(table, conns[s].x, conns[s].rowcount)]
    /\ UNCHANGED <<table, last, base_url, query_params>>

\* Clear Data Only on the admin's connection, while no check-in holds the
\* write lock.
ConcResetData ==
    /\ \A s \in Stations : ~HoldsLock(conns[s])
    /\ table' = <<>>
    /\ UNCHANGED <<last, conns, base_url, query_params>>

InitConc ==
    /\ table \in ConcTables
    /\ last = NoCall
    /\ conns = [s \in Stations |-> IdleConn]
    /\ base_url = BaseUrl
    /\ query_params = NoParams

NextConc ==
    \E s \in Stations :
        \/ \E x \in ConcIdentifiers : Begin(s, x)
        \/ \E now \in Times : ExecExact(s, now)
        \/ BusyTimeout(s)
        \/ \E now \in Times : ExecFallback(s, now)
        \/ Commit(s)
        \/ Lookup(s)
        \/ ConcResetData

SpecConc == InitConc /\ [][NextConc]_vars

---------------------------------------------------------------------------
(* Ticket ids and QR payloads: the functions of barcode_generator.py and
   _extract_ticket_id applied to their inputs *)

\* Tickets per generate_bulk_qr_codes call.
MaxBulkCount == 2

BulkDraws == UNION { [1..n -> Uuids] : n \in 0..MaxBulkCount }

\* generate_ticket_id(prefix) with the draw u.
CallGenerateTicketId(prefix, u) ==
    /\ last' = [op |-> "generate_ticket_id", arg |-> prefix,
                tid |-> GenerateTicketId(prefix, UniqueId(u)),
                fault |-> FALSE, fallback |-> FALSE,
                res |-> GenerateTicketId(prefix, UniqueId(u))]
    /\ UNCHANGED <<table, conns, base_url, query_params>>

\* create_checkin_qr(ticket_id)
CallCreateCheckinQr(ticket_id) ==
    /\ last' = [op |-> "create_checkin_qr", arg |-> ticket_id, tid |-> ticket_id,
                fault |-> FALSE, fallback |-> FALSE,
                res |-> CreateCheckinQr(ticket_id)]
    /\ UNCHANGED <<table, conns, base_url, query_params>>

\* generate_bulk_qr_codes(count, prefix) with count = Len(us) draws.
GenerateBulkQrCodes(prefix, us) ==
    /\ last' = [op |-> "generate_bulk_qr_codes", arg |-> prefix, tid |-> <<>>,
                fault |-> FALSE, fallback |-> FALSE,
                res |-> [k \in 1..Len(us) |->
                          LET ticket_id == GenerateTicketId(prefix, UniqueId(us[k]))
                          IN [ticket_id |-> ticket_id,
                              qr_image |-> CreateCheckinQr(ticket_id),
                              qr_data |-> QrData(base_url, ticket_id)]]]
    /\ UNCHANGED <<table, conns, base_url, query_params>>

\* _extract_ticket_id(qr_data)
CallExtractTicketId(qr_data) ==
    /\ last' = [op |-> "_extract_ticket_id", arg |-> qr_data,
                tid |-> ExtractTable[qr_data],
                fault |-> FALSE, fallback |-> FALSE,
                res |-> ExtractTable[qr_data]]
    /\ UNCHANGED <<table, conns, base_url, query_params>>

InitQr ==
    /\ table = <<>>
    /\ last = NoCall
    /\ conns = [s \in Stations |-> IdleConn]
    /\ base_url \in BaseUrls
    /\ query_params = NoParams

NextQr ==
    \/ \E prefix \in Prefixes, u \in Uuids : CallGenerateTicketId(prefix, u)
    \/ \E ticket_id \in GeneratedIds \cup ReservedIds : CallCreateCheckinQr(ticket_id)
    \/ \E prefix \in Prefixes, us \in BulkDraws : GenerateBulkQrCodes(prefix, us)
    \/ \E qr_data \in QrTexts : CallExtractTicketId(qr_data)

SpecQr == InitQr /\ [][NextQr]_vars

---------------------------------------------------------------------------
(* quick_checkin against a store that can fail *)

\* An identifier one character short of the LIKE pattern limit.
LongIdentifier == [i \in 1..(LikePatternLimit - 1) |-> "A"]

StoreIdentifiers == ConcIdentifiers \cup {LongIdentifier}

NextStore ==
    \/ \E data \in {d \in HybridData : d.name = Ann} :
          HybridAddRegistration(data, FALSE)
    \/ \E x \in StoreIdentifiers, now \in Times : QuickCheckinCall(x, now, FALSE)
    \/ \E x \in StoreIdentifiers : QuickCheckinCall(x, "t1", TRUE)

SpecStore == Init /\ [][NextStore]_vars

---------------------------------------------------------------------------
(* The page opened at check-in URLs *)

NextPage ==
    \/ \E data \in {d \in HybridData : d.name = Ann} :
          HybridAddRegistration(data, FALSE)
    \/ \E ticket \in UrlTickets, action \in UrlActions : OpenUrl(ticket, action)
    \/ \E now \in Times : AutoCheckin(now)

SpecPage == Init /\ [][NextPage]_vars

---------------------------------------------------------------------------
(* Tickets generated in bulk next to single registrations *)

NextTickets ==
    \/ \E prefix \in {RWT, WT}, us \in TicketDraws : GenerateTickets(prefix, us)
    \/ \E data \in {d \in RegistrationData : d.name = Ann} :
          \E u \in Draws(data), fault \in Faults(data) :
             AddRegistration(data, u, fault)
    \/ ResetData

SpecTickets == Init /\ [][NextTickets]_vars

---------------------------------------------------------------------------
(* Properties *)

CoreOps == {"add_registration", "hybrid_add_registration", "quick_checkin",
            "bulk_checkin"}

AddOps == {"add_registration", "hybrid_add_registration"}

\* The attendee pair of row r.
AttendeeOf(r) == <<r.first_name, r.last_name>>

\* C1: when the registration with ticket_id = x is registered,
\* quick_checkin(x) returns success and leaves it checked_in; the next
\* quick_checkin(x) after that success returns the already-checked-in outcome
\* (False with a name) and not success, whatever else the table holds.
C1_RepeatedCheckin ==
    [][ last'.op = "quick_checkin" =>
          /\ \A i \in DOMAIN table :
                (table[i].ticket_id = last'.arg /\ table[i].status = "registered")
                => (last'.res[1] = TRUE /\ table'[i].status = "checked_in")
          /\ ( /\ last.op = "quick_checkin"
               /\ last.arg = last'.arg
               /\ last.res[1] = TRUE
               /\ ~last.fallback )
             => (last'.res[1] = FALSE /\ last'.res[2] # None)
      ]_vars

\* C2: two quick_checkin calls with the same identifier x that both started
\* while the registration with ticket_id = x was registered, and that both
\* returned: exactly one returned success and the other the
\* already-checked-in outcome.
C2_ConcurrentExactlyOne ==
    \A s \in Stations : \A o \in Stations \ {s} :
        ( /\ conns[s].pc = "done" /\ conns[o].pc = "done"
          /\ conns[s].x = conns[o].x
          /\ conns[s].registered /\ conns[o].registered
          /\ conns[s].res # Raised /\ conns[o].res # Raised )
        => \/ ( /\ conns[s].res[1] = TRUE
                /\ conns[o].res[1] = FALSE /\ conns[o].res[2] # None )
           \/ ( /\ conns[o].res[1] = TRUE
                /\ conns[s].res[1] = FALSE /\ conns[s].res[2] # None )

\* C3 (as claimed): in every step, import_from_csv included, a registration
\* that is checked_in keeps status checked_in.
C3_StatusNeverReverts ==
    [][ \A i \in DOMAIN table : \A j \in DOMAIN table' :
          (table[i].status = "checked_in" /\ table'[j].ticket_id = table[i].ticket_id)
          => table'[j].status = "checked_in"
      ]_vars

\* C3 (amended): in every step of add_registration, quick_checkin and bulk
\* check-in, each registration keeps its status or moves from registered to
\* checked_in, and no registration disappears.
C3_StatusMonotonicCore ==
    [][ last'.op \in CoreOps =>
          \A i \in DOMAIN table :
             /\ i \in DOMAIN table'
             /\ table'[i].ticket_id = table[i].ticket_id
             /\ \/ table'[i].status = table[i].status
                \/ (table[i].status = "registered" /\ table'[i].status = "checked_in")
      ]_vars

\* C3 witness: a check-in was attempted on a registration that was already
\* checked_in, and it is still checked_in.
C3_Witness ==
    /\ last.op = "quick_checkin"
    /\ last.res[1] = FALSE
    /\ \E i \in DOMAIN table :
          table[i].ticket_id = last.arg /\ table[i].status = "checked_in"

\* C4: when quick_checkin(x) returns success, the name it returns is that of
\* a registration this call moved from registered to checked_in, which now
\* has a checkin_time.
C4_SuccessNamesCheckedInRow ==
    [][ (last'.op = "quick_checkin" /\ last'.res[1] = TRUE) =>
          \E i \in DOMAIN table :
             /\ table[i].status = "registered"
             /\ table'[i].status = "checked_in"
             /\ table'[i].checkin_time # NULL
             /\ last'.res[2] = AttendeeOf(table'[i])
      ]_vars

\* C5: when quick_checkin(x) does not succeed, it returns (False, None)
\* exactly when no registration matches x, and when the registration with
\* ticket_id = x is checked_in it returns (False, name) with the name of that
\* registration.
C5_FailureCasesDistinct ==
    [][ (last'.op = "quick_checkin" /\ last'.res[1] = FALSE) =>
          /\ (last'.res[2] = None) <=>
                (\A i \in DOMAIN table : ~Like(table[i].ticket_id, last'.arg))
          /\ \A i \in DOMAIN table :
                (table[i].ticket_id = last'.arg /\ table[i].status = "checked_in")
                => last'.res[2] = AttendeeOf(table[i])
      ]_vars

\* x is written with letters, digits and hyphens only.
TicketChars(x) ==
    \A k \in 1..Len(x) :
        \/ x[k] \in Digits \cup {"-"}
        \/ \E n \in 1..Len(UpperCase) : x[k] = UpperCase[n] \/ x[k] = LowerCase[n]

\* The stored ids that contain each identifier when case is ignored.
NoCaseTable ==
    [x \in Identifiers |-> {s \in TicketIds : ContainsNoCase(s, x)}]

C7_CheckinTimeWrittenOnce ==
    [][ \A i \in DOMAIN table :
          table[i].checkin_time # NULL
          => (i \in DOMAIN table' /\ table'[i].checkin_time = table[i].checkin_time)
      ]_vars

\* C7 witness: a check-in ran at a later instant than an earlier one, and
\* the earlier checkin_time is still in the table.
C7_Witness ==
    /\ last.op \in {"quick_checkin", "bulk_checkin"}
    /\ \E i \in DOMAIN table : \E j \in DOMAIN table :
          table[i].checkin_time = "t1" /\ table[j].checkin_time = "t2"

\* No two rows of t carry the same ticket_id.
UniqueTickets(t) ==
    \A i \in DOMAIN t : \A j \in DOMAIN t :
        t[i].ticket_id = t[j].ticket_id => i = j

\* C8: no two registrations ever share a ticket_id, and add_registration
\* with the ticket_id of an existing registration leaves the table unchanged
\* and returns (False, "Ticket ID already exists!", None, None)
\* (HybridDatabase.add_registration: the pair (False, "Ticket ID already
\* exists!")), unless the store itself failed.
C8_DuplicateRejected ==
    [][ /\ UniqueTickets(table')
        /\ ( /\ last'.op \in AddOps
             /\ ~last'.fault
             /\ \E i \in DOMAIN table : table[i].ticket_id = last'.arg )
           => /\ table' = table
              /\ last'.res = IF last'.op = "add_registration"
                             THEN <<FALSE, "Ticket ID already exists!", None, None>>
                             ELSE <<FALSE, "Ticket ID already exists!">>
      ]_vars

\* C8 witness: add_registration was refused for a supplied ticket_id that a
\* registration of the table carries.
C8_Witness ==
    /\ last.op = "add_registration"
    /\ last.res = <<FALSE, "Ticket ID already exists!", None, None>>
    /\ \E i \in DOMAIN table : table[i].ticket_id = last.arg

\* C9: add_registration reports "Ticket ID already exists!" only when a
\* registration with the ticket_id it inserts is already in the table.
C9_DuplicateMessageOnlyForDuplicate ==
    [][ (last'.op \in AddOps /\ last'.res[2] = "Ticket ID already exists!")
        => \E i \in DOMAIN table : table[i].ticket_id = last'.tid
      ]_vars

\* C10: quick_checkin(x) runs the contains-match fallback exactly when no
\* registration has ticket_id = x or that registration is checked_in; when
\* it runs, every registered registration whose ticket_id contains x is
\* checked in and the call reports success; when it does not run, only the
\* registration with ticket_id = x changes.
C10_FallbackWhenExactMisses ==
    [][ last'.op = "quick_checkin" =>
          /\ last'.fallback <=>
                (\A i \in DOMAIN table :
                    table[i].ticket_id = last'.arg => table[i].status = "checked_in")
          /\ last'.fallback =>
                \A i \in DOMAIN table :
                    ( /\ table[i].status = "registered"
                      /\ Contains(table[i].ticket_id, last'.arg) )
                    => (table'[i].status = "checked_in" /\ last'.res[1] = TRUE)
          /\ ~last'.fallback =>
                \A i \in DOMAIN table :
                    table[i].ticket_id # last'.arg => table'[i] = table[i]
      ]_vars

\* C10 witness: the registration with ticket_id = x was checked_in, the
\* fallback ran, and a registration whose ticket_id contains x was checked in.
C10_Witness ==
    /\ last.op = "quick_checkin" /\ last.fallback /\ last.res[1] = TRUE
    /\ \E i \in DOMAIN table : \E j \in DOMAIN table :
          /\ table[i].ticket_id = last.arg
          /\ table[j].ticket_id # last.arg
          /\ Contains(table[j].ticket_id, last.arg)
          /\ table[j].status = "checked_in"

\* C11: when the exact match does not apply and x is contained in the
\* ticket_id of more than one registered registration, quick_checkin(x)
\* returns the not-found result (False, None) and changes no registration.
C11_AmbiguousIsNotFound ==
    [][ ( /\ last'.op = "quick_checkin"
          /\ last'.fallback
          /\ Cardinality({i \in DOMAIN table :
                            /\ table[i].status = "registered"
                            /\ Contains(table[i].ticket_id, last'.arg)}) > 1 )
        => (last'.res = <<FALSE, None>> /\ table' = table)
      ]_vars

\* Ids add_registration generates: generate_ticket_id() with its default prefix.
RegistrationIds == { GenerateTicketId(RWT, s) : s \in Suffixes }

\* C12: scanning the check-in payload issued for a registered registration
\* with a generated ticket id extracts that id, reports success, checks in
\* that registration and changes no other registration.
C12_ScanChecksInIssuedTicket ==
    [][ last'.op = "scan_checkin" =>
          \A i \in DOMAIN table :
             ( /\ table[i].status = "registered"
               /\ table[i].ticket_id \in RegistrationIds
               /\ last'.arg = CheckinUrl(table[i].ticket_id) )
             => /\ last'.tid = table[i].ticket_id
                /\ last'.res[1] = TRUE
                /\ table'[i].status = "checked_in"
                /\ \A j \in DOMAIN table : j # i => table'[j] = table[j]
      ]_vars

\* C12 witness: the payload of RWT-AB12CD34 was scanned with success while
\* WT-AB12CD34, contained in it, stays registered.
C12_Witness ==
    /\ last.op = "scan_checkin"
    /\ last.res # <<>> /\ last.res[1] = TRUE
    /\ last.arg = CheckinUrl(GenerateTicketId(RWT, <<"A","B","1","2","C","D","3","4">>))
    /\ \E i \in DOMAIN table : \E j \in DOMAIN table :
          /\ table[i].ticket_id = last.tid /\ table[i].status = "checked_in"
          /\ table[j].ticket_id = WorshipTicket /\ table[j].status = "registered"

\* C13: for every prefix, every generated id and every base URL without
\* query or fragment, _extract_ticket_id of the payload
\* base_url + "/?ticket=" + id + "&action=checkin" is id.
C13_RoundTrip ==
    last.op = "_extract_ticket_id" =>
        \A t \in GeneratedIds :
            last.arg = base_url \o <<"/","?","t","i","c","k","e","t","=">> \o t \o <<"&","a","c","t","i","o","n","=","c","h","e","c","k","i","n">>
            => last.res = t

\* C13 witness: the payload of a STAFF ticket, issued by a deployment with a
\* port and a path, was decoded to the ticket id.
C13_Witness ==
    /\ last.op = "_extract_ticket_id"
    /\ base_url = <<"h","t","t","p",":","/","/","x",".","t","e","s","t",":","8","5","0","1","/","a","p","p">>
    /\ last.arg = CheckinUrl(<<"S","T","A","F","F","-","0","0","F","F","0","0","F","F">>)
    /\ last.res = <<"S","T","A","F","F","-","0","0","F","F","0","0","F","F">>

\* C14: for every ticket_id, those with the reserved characters & # + % =
\* and space included, _extract_ticket_id of the payload built for it returns
\* the identical ticket_id.
C14_ReservedRoundTrip ==
    last.op = "_extract_ticket_id" =>
        \A t \in GeneratedIds \cup ReservedIds :
            last.arg = CheckinUrl(t) => last.res = t

\* C15: the string create_checkin_qr encodes, and the qr_data and the image
\* generate_bulk_qr_codes reports for each ticket, is exactly
\* base_url + "/?ticket=" + ticket_id + "&action=checkin".
C15_PayloadExact ==
    /\ last.op = "create_checkin_qr" =>
          last.res[2] = base_url \o <<"/","?","t","i","c","k","e","t","=">> \o last.arg \o <<"&","a","c","t","i","o","n","=","c","h","e","c","k","i","n">>
    /\ last.op = "generate_bulk_qr_codes" =>
          \A k \in DOMAIN last.res :
             /\ last.res[k].qr_data =
                   base_url \o <<"/","?","t","i","c","k","e","t","=">> \o last.res[k].ticket_id
                            \o <<"&","a","c","t","i","o","n","=","c","h","e","c","k","i","n">>
             /\ last.res[k].qr_image[2] = last.res[k].qr_data

\* C15 witness: generate_bulk_qr_codes returned two different tickets.
C15_Witness ==
    /\ last.op = "generate_bulk_qr_codes"
    /\ Len(last.res) = 2
    /\ last.res[1].ticket_id # last.res[2].ticket_id

\* C16: _extract_ticket_id of a URL with a ticket query parameter returns
\* the value of the parameter, whether the parameter comes first or after
\* action=checkin, and whatever the value looks like.
C16_TicketParamAnyPosition ==
    last.op = "_extract_ticket_id" =>
        \A t \in GeneratedIds \cup { <<"r","w","t","-","a","b","1","2","c","d","3","4">> } :
            ( \/ last.arg = BaseUrl \o <<"/","?","t","i","c","k","e","t","=">> \o t \o <<"&","a","c","t","i","o","n","=","c","h","e","c","k","i","n">>
              \/ last.arg = BaseUrl \o <<"/","?","a","c","t","i","o","n","=","c","h","e","c","k","i","n","&","t","i","c","k","e","t","=">> \o t )
            => last.res = t

\* C17: _extract_ticket_id returns None only if none of its strategies
\* matches: then the text has no known prefix and no substring of the form
\* [A-Z]{2,4}-[A-Z0-9]{6,12}.
C17_NoneOnlyIfNoStrategyMatches ==
    (last.op = "_extract_ticket_id" /\ last.res = None) =>
        /\ ~StartsWithKnownPrefix(last.arg)
        /\ ReSearch(last.arg) = None

\* s is PREFIX-ALNUM: a known prefix, a hyphen, then letters and digits.
IsKnownTicketId(s) ==
    \E p \in KnownPrefixes :
        /\ StartsWith(s, p)
        /\ Len(s) > Len(p)
        /\ \A k \in (Len(p) + 1)..Len(s) : s[k] \in Letters \cup Digits

\* C18: for text without a ticket query parameter, _extract_ticket_id
\* returns the text when it is PREFIX-ALNUM with a known prefix, otherwise
\* the leftmost substring of the form [A-Z]{2,4}-[A-Z0-9]{6,12}, and None
\* when there is none.
C18_PlainTextExtraction ==
    ( /\ last.op = "_extract_ticket_id"
      /\ ~Contains(last.arg, <<"?","t","i","c","k","e","t","=">>)
      /\ TicketParam(last.arg) = None )
    => last.res = IF IsKnownTicketId(last.arg) THEN last.arg
                  ELSE ReSearch(last.arg)

\* C19: generate_ticket_id(prefix) returns the prefix, one hyphen, and then
\* exactly 8 characters, each a digit or an upper-case letter.
C19_TicketIdFormat ==
    last.op = "generate_ticket_id" =>
        LET n == Len(last.arg) IN
        /\ Len(last.res) = n + 9
        /\ SubSeq(last.res, 1, n) = last.arg
        /\ last.res[n + 1] = "-"
        /\ \A k \in (n + 2)..(n + 9) : last.res[k] \in Digits \cup UpperLetters

\* C19 witness: generate_ticket_id("STAFF") returned STAFF-AB12CD34.
C19_Witness ==
    /\ last.op = "generate_ticket_id"
    /\ last.arg = <<"S","T","A","F","F">>
    /\ last.res = <<"S","T","A","F","F","-","A","B","1","2","C","D","3","4">>

\* C20: quick_checkin raises exactly when a storage operation failed inside
\* it: never for an identifier while the store answers, and a storage failure
\* is never returned as a result tuple.
C20_RaisesOnlyOnStorageFailure ==
    [][ last'.op = "quick_checkin" => ((last'.res = Raised) <=> last'.fault)
      ]_vars

\* C21: when the registration with ticket_id = x is registered,
\* quick_checkin(x) changes only that row: every other registration, those
\* whose ticket_id contains x included, keeps its status and checkin_time.
C21_ExactMatchChangesOnlyThatRow ==
    [][ ( /\ last'.op = "quick_checkin"
          /\ \E i \in DOMAIN table :
                table[i].ticket_id = last'.arg /\ table[i].status = "registered" )
        => \A j \in DOMAIN table :
              table[j].ticket_id # last'.arg
              => /\ table'[j].status = table[j].status
                 /\ table'[j].checkin_time = table[j].checkin_time
      ]_vars

\* C21 witness: WT-AB12CD34 was checked in by its exact id while
\* RWT-AB12CD34, which contains it, is still registered.
C21_Witness ==
    /\ last.op = "quick_checkin" /\ last.arg = WorshipTicket
    /\ last.res[1] = TRUE /\ ~last.fallback
    /\ \E i \in DOMAIN table :
          /\ Contains(table[i].ticket_id, WorshipTicket)
          /\ table[i].ticket_id # WorshipTicket
          /\ table[i].status = "registered"

\* C22: one quick_checkin call changes the status of at most one
\* registration, whatever identifier it is given.
C22_AtMostOneRowChanges ==
    [][ last'.op = "quick_checkin" =>
          Cardinality({i \in DOMAIN table : table'[i].status # table[i].status}) <= 1
      ]_vars

\* C23: the fallback of quick_checkin(x) checks in only registrations whose
\* ticket_id contains x as written (upper and lower case taken as equal):
\* '%' and '_' in x match only themselves.
C23_FallbackMatchesLiterally ==
    [][ (last'.op = "quick_checkin" /\ last'.fallback) =>
          \A i \in DOMAIN table :
             table'[i].status # table[i].status
             => table[i].ticket_id \in NoCaseTable[last'.arg]
      ]_vars

\* C24: a successful add_registration appends exactly one row, with the
\* returned ticket_id, status registered and a null checkin_time, and every
\* row that was in the table is unchanged.
C24_AddInsertsOneRow ==
    [][ (last'.op \in AddOps /\ last'.res[1] = TRUE) =>
          /\ Len(table') = Len(table) + 1
          /\ \A i \in DOMAIN table : table'[i] = table[i]
          /\ table'[Len(table')].ticket_id = last'.tid
          /\ last'.op = "add_registration" => last'.res[3] = last'.tid
          /\ table'[Len(table')].status = "registered"
          /\ table'[Len(table')].checkin_time = NULL
      ]_vars

\* C24 witness: a registration without a supplied ticket id succeeded while
\* a checked-in registration was in the table.
C24_Witness ==
    /\ last.op = "add_registration" /\ last.arg = None
    /\ last.res[1] = TRUE
    /\ table[Len(table)].ticket_id = last.res[3]
    /\ \E i \in DOMAIN table : table[i].status = "checked_in"

\* C26: bulk check-in moves every registered registration to checked_in
\* with a checkin_time, reports how many were registered, and leaves the
\* checked-in ones as they were; once all are checked in, quick_checkin with
\* the id of an existing ticket returns (False, name) and changes nothing.
C26_BulkCheckin ==
    [][ /\ last'.op = "bulk_checkin" =>
            /\ last'.res =
                  <<Cardinality({i \in DOMAIN table : table[i].status = "registered"})>>
            /\ DOMAIN table' = DOMAIN table
            /\ \A i \in DOMAIN table :
                  IF table[i].status = "registered"
                  THEN /\ table'[i].status = "checked_in"
                       /\ table'[i].checkin_time # NULL
                  ELSE table'[i] = table[i]
        /\ ( /\ last'.op = "quick_checkin"
             /\ \A i \in DOMAIN table : table[i].status = "checked_in"
             /\ \E i \in DOMAIN table : table[i].ticket_id = last'.arg )
           => /\ last'.res[1] = FALSE /\ last'.res[2] # None
              /\ table' = table
      ]_vars

\* C26 witness: bulk check-in checked in one registration and kept the
\* checkin_time of one that was checked in at another instant.
C26_Witness ==
    /\ last.op = "bulk_checkin" /\ last.res = <<1>>
    /\ \E i \in DOMAIN table : \E j \in DOMAIN table :
          table[i].checkin_time = "t1" /\ table[j].checkin_time = "t2"

\* C27: in every state reached through add_registration, quick_checkin and
\* bulk check-in, a registration has a checkin_time if and only if its
\* status is checked_in.
C27_CheckinTimeIffCheckedIn ==
    \A i \in DOMAIN table :
        (table[i].checkin_time # NULL) <=> (table[i].status = "checked_in")

\* C27 witness: after a quick_checkin the table holds a checked-in
\* registration with a checkin_time and a registered one without.
C27_Witness ==
    /\ last.op = "quick_checkin" /\ last.res[1] = TRUE
    /\ \E i \in DOMAIN table : \E j \in DOMAIN table :
          /\ table[i].status = "checked_in" /\ table[i].checkin_time # NULL
          /\ table[j].status = "registered" /\ table[j].checkin_time = NULL

\* C25: get_dashboard_stats reports total = the number of registrations,
\* checked_in = the number with status checked_in and pending = the number
\* with status registered; a quick_checkin on a ticket that is already
\* checked in does not raise checked_in.
C25_StatsCountRegistrations ==
    [][ /\ last'.op = "get_dashboard_stats" =>
            /\ last'.res.total = Len(table)
            /\ last'.res.checked_in =
                  Cardinality({i \in DOMAIN table : table[i].status = "checked_in"})
            /\ last'.res.pending =
                  Cardinality({i \in DOMAIN table : table[i].status = "registered"})
        /\ ( /\ last'.op = "quick_checkin"
             /\ \E i \in DOMAIN table :
                   table[i].ticket_id = last'.arg /\ table[i].status = "checked_in" )
           => DashboardStats(table').checked_in = DashboardStats(table).checked_in
      ]_vars

\* C28: a quick_checkin that returns success returns an attendee pair, also
\* when the data reset runs between its commit and its name lookup.
C28_SuccessHasAttendee ==
    \A s \in Stations :
        (conns[s].pc = "done" /\ conns[s].res # Raised /\ conns[s].res[1] = TRUE)
        => conns[s].res[2] # None

\* C29: a run of the page calls quick_checkin at most once, and exactly when
\* the ticket and action parameters are present and action is "checkin"; the
\* parameters are cleared by that run, so the next run makes no call; a run
\* that makes no call changes no registration.
C29_AutoCheckinOncePerUrl ==
    [][ last'.op = "page_run" =>
          /\ Len(last'.res) <= 1
          /\ (Len(last'.res) = 1) <=>
                ( /\ query_params.ticket # None
                  /\ query_params.action = <<"c","h","e","c","k","i","n">> )
          /\ Len(last'.res) = 1 => query_params' = [ticket |-> None, action |-> None]
          /\ Len(last'.res) = 0 => table' = table
          /\ (last.op = "page_run" /\ Len(last.res) = 1) => Len(last'.res) = 0
      ]_vars

\* C29 witness: the page was run again after a run that checked a ticket in,
\* and the second run made no call.
C29_Witness ==
    /\ last.op = "page_run" /\ last.res = <<>>
    /\ query_params = [ticket |-> None, action |-> None]
    /\ \E i \in DOMAIN table : table[i].status = "checked_in"

\* C30: every ticket listed by Generate Tickets has a row with its
\* ticket_id, the tickets listed and the number reported are the tickets
\* whose insert succeeded, and the ticket id a successful add_registration
\* returns has a row.
C30_ListedTicketsAreStored ==
    [][ /\ last'.op = "generate_tickets" =>
            /\ \A k \in DOMAIN last'.res.tickets :
                  \E i \in DOMAIN table' : table'[i].ticket_id = last'.res.tickets[k]
            /\ Len(last'.res.tickets) = Len(table') - Len(table)
            /\ last'.res.count = Len(table') - Len(table)
        /\ (last'.op = "add_registration" /\ last'.res[1] = TRUE) =>
              \E i \in DOMAIN table' : table'[i].ticket_id = last'.res[3]
      ]_vars

=============================================================================
